---- MODULE Spec2Model ----
(***************************************************************************)
(* RSS health monitor (rss-health-check.py): one check cycle (run_checks)   *)
(* probes every configured source in a thread pool, updates the per-source *)
(* failure state, swaps a source's URL to its registered fallback after    *)
(* FAIL_THRESHOLD consecutive failures, reverts it after a successful      *)
(* probe of the original URL, and saves the state.                          *)
(*                                                                         *)
(* The config document is a sequence of source entries in document order;  *)
(* each entry holds the source name and the serialized string literal of   *)
(* its URL.  One URL has several JSON serializations (json.dumps emits one *)
(* of them), so a literal is the URL plus the flag "esc": TRUE for a       *)
(* serialization json.dumps does not produce (escaped slashes, raw         *)
(* non-ASCII characters).  last_check (a wall-clock stamp) is left out.    *)
(***************************************************************************)
EXTENDS Integers, Sequences, FiniteSets, TLC

VARIABLES
    configFile,   \* news-sources-config.json on disk: Seq of [name, lit]
    stateFile,    \* logs/rss-health.json on disk: name -> entry
    pc,           \* position of the monitor process
    config,       \* run_checks: config = load_config()
    state,        \* run_checks: state = load_state(), mutated in place
    tasks,        \* run_checks: tasks (names, in config order)
    started,      \* pool: number of submitted tasks handed to a worker
    running,      \* pool: indices of the tasks in flight
    results,      \* run_checks: results dict, in insertion order
    idx,          \* position of the update loop in results.items()
    swapped,      \* run_checks: swapped  [(name, old_url, new_url)]
    reverted,     \* run_checks: reverted [(name, fallback_url, original_url)]
    probeOut,     \* history: what the pooled probe of task i returned/raised
    revProbes,    \* history: revert probes issued in this cycle
    mutReqs,      \* history: swap_url_in_config calls of this cycle
    origUrl,      \* history: each source's URL in the initial config
    failRun,      \* history: failing results since the last ok result
    prevOk,       \* history: each source's status in the last completed cycle
    aborts,       \* history: number of cycles ended by an exception so far
    swapLive,     \* history: a failover was applied for the source and no revert since
    stateDisk,    \* what logs/rss-health.json is: "absent", "json" (stateFile is its
                  \* content), "syntax" (not JSON) or "notdict" (JSON, not an object)
    stateNull,    \* the sources whose entry in logs/rss-health.json is null
    exitStatus,   \* status the monitor process ended with
    emailed,      \* main: what became of the alert email
    tmpFiles,     \* the temporary files in the directory of the config file
    procs,        \* the monitor processes that run swap_url_in_config step by step
    probe         \* check_source: the response one probe meets and its result

\* the variables of the views taken further below: of swap_url_in_config at
\* the level of the file system, and of check_source on one response
auxVars == <<tmpFiles, procs, probe>>

vars == <<configFile, stateFile, pc, config, state, tasks, started, running,
          results, idx, swapped, reverted, probeOut, revProbes, mutReqs,
          origUrl, failRun, prevOk, aborts, swapLive, stateDisk, stateNull,
          exitStatus, emailed, tmpFiles, procs, probe>>

None == "None"

\* FAIL_THRESHOLD = 3
FAIL_THRESHOLD == 3

\* ThreadPoolExecutor(max_workers=10)
MaxWorkers == 10

\* Bound of the model: no source fails more than MaxFails times in a row.
MaxFails == 4

\* Bound of the model: at most MaxAborts cycles are ended by an exception.
MaxAborts == 1

\* no cycle has aborted so far
Clean == aborts = 0

\* FALLBACK_URLS: name -> mirror URL ("C" has none)
FALLBACK_URLS == ("A" :> "fbA") @@ ("B" :> "fbB")

\* json.dumps(url): the one serialization json.dumps produces
Dumps(u) == [u |-> u, esc |-> FALSE]

\* json.load of a string literal: every serialization decodes to its URL
Loads(lit) == lit.u

Src(n, u, e) == [name |-> n, lit |-> [u |-> u, esc |-> e]]

\* The config documents the monitor is started on.
InitDocs ==
    { << Src("C", "uC", FALSE), Src("A", "uA", FALSE) >>,   \* distinct URLs
      << Src("C", "uA", FALSE), Src("A", "uA", FALSE) >>,   \* an earlier equal URL
      << Src("C", "fbA", FALSE), Src("A", "uA", FALSE) >>,  \* an earlier URL equal to the fallback
      << Src("C", "uC", FALSE), Src("A", "fbA", FALSE) >>,  \* URL already the fallback
      << Src("C", "uC", FALSE), Src("A", "uA", TRUE) >>,    \* a literal json.dumps does not produce
      << Src("A", "uA", FALSE), Src("B", "uA", FALSE) >> }  \* two sources with fallbacks, equal URLs

\* load_config(): the parsed document
load_config(doc) == [i \in DOMAIN doc |-> [name |-> doc[i].name, url |-> Loads(doc[i].lit)]]

\* _get_current_url(config, source_name): URL of the first entry of that name
_get_current_url(cfg, name) ==
    IF \E i \in DOMAIN cfg : cfg[i].name = name
    THEN cfg[CHOOSE i \in DOMAIN cfg :
                 /\ cfg[i].name = name
                 /\ \A j \in DOMAIN cfg : cfg[j].name = name => i <= j].url
    ELSE None

\* a Python truth test of a URL value (None and "" are false)
Truthy(u) == u # None /\ u # ""

\* state.get(name, {...}): the entry of a source, the default for an unseen one
DefaultEntry == [consecutive_fails |-> 0, last_error |-> None, swapped_from |-> None]
GetEntry(st, name) == IF name \in DOMAIN st THEN st[name] ELSE DefaultEntry

\* d[k] = v on a dict
DictSet(d, k, v) == [x \in DOMAIN d \cup {k} |-> IF x = k THEN v ELSE d[x]]

\* results[name] = res on the insertion-ordered results dict
ResultsSet(rs, name, res) ==
    IF \E i \in DOMAIN rs : rs[i].name = name
    THEN [i \in DOMAIN rs |-> IF rs[i].name = name THEN [name |-> name, res |-> res] ELSE rs[i]]
    ELSE Append(rs, [name |-> name, res |-> res])

\* check_source: the outcomes of one probe; "raise" is an exception escaping it
ProbeOutcomes == {"ok", "unreachable", "raise"}
CheckResult(o) ==
    CASE o = "ok"          -> [ok |-> TRUE,  error |-> None, article_count |-> 1, newest_age_hours |-> 1]
      [] o = "unreachable" -> [ok |-> FALSE, error |-> "unreachable", article_count |-> 0, newest_age_hours |-> None]

\* run_checks, the as_completed loop body: future.result() or the synthetic result
SyntheticResult == [ok |-> FALSE, error |-> "exception", article_count |-> 0, newest_age_hours |-> None]
Collect(o) == IF o = "raise" THEN SyntheticResult ELSE CheckResult(o)

\* mutant of FutureName: results matched to names by completion order
FutureName_ByCompletionOrder(tk, i, rs) == tk[Len(rs) + 1]

\* futures[future]: the name the future was submitted under
FutureName(tk, i, rs) == tk[i]

\* the monitor process has not ended: it has no exit status yet
NoStatus == -1

\* load_state: {} when there is no file, else json.load of it, which raises
\* when the file is not JSON
load_state(disk, file) ==
    CASE disk = "absent" -> [raised |-> FALSE, state |-> << >>]
      [] disk = "syntax" -> [raised |-> TRUE, state |-> << >>]
      [] OTHER -> [raised |-> FALSE, state |-> file]

\* no monitor process steps through swap_url_in_config, no single probe is looked at
AuxIdle ==
    /\ tmpFiles = << >>
    /\ procs = << >>
    /\ probe = << >>

\* No cycle run yet.
InitCycle ==
    /\ pc = "idle"
    /\ exitStatus = NoStatus
    /\ emailed = None
    /\ config = << >>
    /\ state = << >>
    /\ tasks = << >>
    /\ started = 0
    /\ running = {}
    /\ results = << >>
    /\ idx = 0
    /\ swapped = << >>
    /\ reverted = << >>
    /\ probeOut = << >>
    /\ revProbes = {}
    /\ mutReqs = << >>
    /\ origUrl = [n \in {configFile[i].name : i \in DOMAIN configFile} |->
                    _get_current_url(load_config(configFile), n)]
    /\ failRun = [n \in DOMAIN origUrl |-> 0]
    /\ prevOk = [n \in DOMAIN origUrl |-> None]
    /\ aborts = 0
    /\ swapLive = [n \in DOMAIN origUrl |-> FALSE]

\* The first run: no state file, no cycle run yet.
InitRest ==
    /\ stateFile = << >>
    /\ stateDisk = "absent"
    /\ stateNull = {}
    /\ InitCycle
    /\ AuxIdle

Init ==
    /\ configFile \in InitDocs
    /\ InitRest

\* swap_url_in_config, text.replace(old_json, new_json, 1): the first occurrence only
ReplaceFirst(doc, old_json, new_json) ==
    LET first == CHOOSE i \in DOMAIN doc :
                     /\ doc[i].lit = old_json
                     /\ \A j \in DOMAIN doc : doc[j].lit = old_json => i <= j
    IN  [doc EXCEPT ![first].lit = new_json]

\* mutant of swap_url_in_config: a URL that is not found is an error
swap_url_in_config_NotFoundRaises(doc, old_url, new_url, io) ==
    LET old_json == Dumps(old_url)
        new_json == Dumps(new_url)
    IN  IF ~(\E i \in DOMAIN doc : doc[i].lit = old_json) \/ io = "fail"
        THEN [ret |-> "raise", doc |-> doc]
        ELSE [ret |-> "True", doc |-> ReplaceFirst(doc, old_json, new_json)]

\* swap_url_in_config(old_url, new_url) on the document doc; io = "fail" is an
\* I/O error while writing or renaming the temporary file (the document is kept)
swap_url_in_config(doc, old_url, new_url, io) ==
    LET old_json == Dumps(old_url)
        new_json == Dumps(new_url)
    IN  IF ~(\E i \in DOMAIN doc : doc[i].lit = old_json)
        THEN [ret |-> "False", doc |-> doc]
        ELSE IF io = "fail"
        THEN [ret |-> "raise", doc |-> doc]
        ELSE [ret |-> "True", doc |-> ReplaceFirst(doc, old_json, new_json)]

\* mutant of UpdateEntry: a success does not reset the counter
UpdateEntry_NoReset(entry, res) ==
    IF res.ok
    THEN [entry EXCEPT !.last_error = None]
    ELSE [entry EXCEPT !.consecutive_fails = @ + 1, !.last_error = res.error]

\* run_checks, lines 294-299: the counter and last_error after one result
UpdateEntry(entry, res) ==
    IF res.ok
    THEN [entry EXCEPT !.consecutive_fails = 0, !.last_error = None]
    ELSE [entry EXCEPT !.consecutive_fails = @ + 1, !.last_error = res.error]

\* mutant of AtThreshold: the threshold compared with > instead of >=
AtThreshold_Late(name, res, entry) ==
    /\ ~res.ok
    /\ entry.consecutive_fails > FAIL_THRESHOLD
    /\ name \in DOMAIN FALLBACK_URLS

\* mutant of AtThreshold: the swap one failure early
AtThreshold_Early(name, res, entry) ==
    /\ ~res.ok
    /\ entry.consecutive_fails >= FAIL_THRESHOLD - 1
    /\ name \in DOMAIN FALLBACK_URLS

\* run_checks, line 305: the auto-swap condition
AtThreshold(name, res, entry) ==
    /\ ~res.ok
    /\ entry.consecutive_fails >= FAIL_THRESHOLD
    /\ name \in DOMAIN FALLBACK_URLS

\* mutant of AlreadySwapped: the guard against a second swap is missing
AlreadySwapped_Never(entry) == FALSE

\* run_checks, lines 306-307: an already swapped source is skipped
AlreadySwapped(entry) == entry.swapped_from # None

\* mutant of ProbeAllowsRevert: the revert goes on whatever the probe returned
ProbeAllowsRevert_Ignored(p) == TRUE

\* mutant of ProbeAllowsRevert: no probe result lets the revert go on
ProbeAllowsRevert_Never(p) == FALSE

\* run_checks, line 322: the revert goes on only when the probe of the original is ok
ProbeAllowsRevert(p) == p = "ok"

Applied_NotRaised(ret) == ret # "raise"

\* run_checks, lines 310 and 323: if swap_url_in_config(...) is true
Applied(ret) == ret = "True"

\* run_checks, lines 304-312: the failover of one source.  Gives the entry, the
\* document, the new swap events, the swap_url_in_config calls and whether an
\* exception escaped.
Failover(name, entry, cfg, doc, io) ==
    LET keep == [entry |-> entry, doc |-> doc, swapped |-> << >>, reverted |-> << >>,
                 probes |-> {}, reqs |-> << >>, raised |-> FALSE]
        fallback_url == FALLBACK_URLS[name]
        old_url == _get_current_url(cfg, name)
        r == swap_url_in_config(doc, old_url, fallback_url, io)
        req == [name |-> name, kind |-> "swap", old |-> old_url, new |-> fallback_url, ret |-> r.ret]
    IN  IF AlreadySwapped(entry) THEN keep
        ELSE IF ~Truthy(old_url) THEN keep
        ELSE IF Applied(r.ret)
        THEN [keep EXCEPT !.entry = [entry EXCEPT !.swapped_from = old_url],
                          !.doc = r.doc,
                          !.swapped = << <<name, old_url, fallback_url>> >>,
                          !.reqs = <<req>>]
        ELSE [keep EXCEPT !.reqs = <<req>>, !.raised = (r.ret = "raise")]

\* run_checks, lines 314-325: the revert of one source; p is the outcome of the
\* probe of the original URL
Revert(name, entry, cfg, doc, p, io) ==
    LET keep == [entry |-> entry, doc |-> doc, swapped |-> << >>, reverted |-> << >>,
                 probes |-> {}, reqs |-> << >>, raised |-> FALSE]
        original_url == entry.swapped_from
        current_url == _get_current_url(cfg, name)
        probed == [keep EXCEPT !.probes = {[name |-> name, url |-> original_url, out |-> p]}]
        r == swap_url_in_config(doc, current_url, original_url, io)
        req == [name |-> name, kind |-> "revert", old |-> current_url, new |-> original_url, ret |-> r.ret]
    IN  IF ~(Truthy(current_url) /\ current_url # original_url) THEN keep
        ELSE IF p = "raise" THEN [probed EXCEPT !.raised = TRUE]
        ELSE IF ~ProbeAllowsRevert(p) THEN probed
        ELSE IF Applied(r.ret)
        THEN [probed EXCEPT !.entry = [entry EXCEPT !.swapped_from = None],
                            !.doc = r.doc,
                            !.reverted = << <<name, current_url, original_url>> >>,
                            !.reqs = <<req>>]
        ELSE [probed EXCEPT !.reqs = <<req>>, !.raised = (r.ret = "raise")]

\* run_checks, lines 291-325: the loop body for one (name, res)
LoopBody(name, res, st, cfg, doc, p, io) ==
    LET entry == UpdateEntry(GetEntry(st, name), res)
        keep == [entry |-> entry, doc |-> doc, swapped |-> << >>, reverted |-> << >>,
                 probes |-> {}, reqs |-> << >>, raised |-> FALSE]
    IN  IF AtThreshold(name, res, entry) THEN Failover(name, entry, cfg, doc, io)
        ELSE IF res.ok /\ Truthy(entry.swapped_from) THEN Revert(name, entry, cfg, doc, p, io)
        ELSE keep

----------------------------------------------------------------------------
\* run_checks, lines 253-279: load the config and the state, build and submit the tasks
StartCycle ==
    /\ pc \in {"idle", "done", "aborted"}
    /\ config' = load_config(configFile)
    /\ LET ld == load_state(stateDisk, stateFile)
       IN  IF ld.raised
           THEN /\ aborts < MaxAborts
                /\ pc' = "aborted"
                /\ aborts' = aborts + 1
                /\ exitStatus' = 1
                /\ state' = << >>
                /\ tasks' = << >>
           ELSE /\ pc' = "probing"
                /\ aborts' = aborts
                /\ exitStatus' = NoStatus
                /\ state' = ld.state
                /\ tasks' = [i \in DOMAIN configFile |->
                                Loads([u |-> configFile[i].name, esc |-> FALSE])]
    /\ emailed' = None
    /\ started' = 0
    /\ running' = {}
    /\ results' = << >>
    /\ idx' = 0
    /\ swapped' = << >>
    /\ reverted' = << >>
    /\ probeOut' = << >>
    /\ revProbes' = {}
    /\ mutReqs' = << >>
    /\ UNCHANGED <<configFile, stateFile, origUrl, failRun, prevOk, swapLive,
                   stateDisk, stateNull, auxVars>>

\* a pool worker takes the next submitted task (at most max_workers in flight)
StartProbe ==
    /\ pc = "probing"
    /\ started < Len(tasks)
    /\ Cardinality(running) < MaxWorkers
    /\ started' = started + 1
    /\ running' = running \cup {started + 1}
    /\ UNCHANGED <<configFile, stateFile, pc, config, state, tasks, results, idx,
                   swapped, reverted, probeOut, revProbes, mutReqs, origUrl,
                   failRun, prevOk, aborts, swapLive, stateDisk, stateNull,
                   exitStatus, emailed, auxVars>>

\* The counters of the model are kept finite in one of two ways: a source that
\* has failed MaxFails times in a row does not fail again (sat = FALSE), or the
\* counts from MaxFails on are taken together as MaxFails (sat = TRUE).
Saturate(k, sat) == IF sat /\ k > MaxFails THEN MaxFails ELSE k

\* run_checks, lines 280-286: a probe completes with outcome o and is collected
CompleteProbeG(i, o, sat) ==
    /\ pc = "probing"
    /\ i \in running
    /\ o # "ok" => sat \/ GetEntry(state, tasks[i]).consecutive_fails < MaxFails
    /\ running' = running \ {i}
    /\ probeOut' = DictSet(probeOut, i, o)
    /\ results' = ResultsSet(results, FutureName(tasks, i, results), Collect(o))
    /\ failRun' = IF Clean
                  THEN [failRun EXCEPT ![tasks[i]] = IF o = "ok" THEN 0 ELSE Saturate(@ + 1, sat)]
                  ELSE failRun
    /\ UNCHANGED <<configFile, stateFile, pc, config, state, tasks, started, idx,
                   swapped, reverted, revProbes, mutReqs, origUrl, prevOk, aborts,
                   swapLive, stateDisk, stateNull, exitStatus, emailed, auxVars>>

CompleteProbe(i, o) == CompleteProbeG(i, o, FALSE)

\* mutant of AllDone: the update loop starts once every task has been handed
\* to a worker
AllDone_Submitted(tk, st, run) == st = Len(tk)

\* run_checks, lines 275-286: as_completed has yielded every future and the
\* with-block has joined the workers
AllDone(tk, st, run) == st = Len(tk) /\ run = {}

\* the with-block of the pool ends once every future is done
JoinPool ==
    /\ pc = "probing"
    /\ AllDone(tasks, started, running)
    /\ pc' = "updating"
    /\ idx' = 1
    /\ UNCHANGED <<configFile, stateFile, config, state, tasks, started, running,
                   results, swapped, reverted, probeOut, revProbes, mutReqs,
                   origUrl, failRun, prevOk, aborts, swapLive, stateDisk, stateNull,
                   exitStatus, emailed, auxVars>>

\* run_checks, lines 292-298: state.get raises when the loaded state is not a
\* mapping, and the update of the entry raises when the entry is null
EntryFault(disk, nulls, name) == disk = "notdict" \/ name \in nulls

\* run_checks, lines 291-325: one iteration of the update loop; an escaping
\* exception ends the process without saving the state
ProcessResultG(p, io, sat) ==
    /\ pc = "updating"
    /\ idx <= Len(results)
    /\ LET name == results[idx].name
           out == IF EntryFault(stateDisk, stateNull, name)
                  THEN [entry |-> GetEntry(state, name), doc |-> configFile,
                        swapped |-> << >>, reverted |-> << >>, probes |-> {},
                        reqs |-> << >>, raised |-> TRUE]
                  ELSE LoopBody(name, results[idx].res, state, config, configFile, p, io)
       IN  /\ configFile' = out.doc
           /\ state' = DictSet(state, name,
                               [out.entry EXCEPT !.consecutive_fails = Saturate(@, sat)])
           /\ swapped' = swapped \o out.swapped
           /\ reverted' = reverted \o out.reverted
           /\ revProbes' = revProbes \cup out.probes
           /\ mutReqs' = mutReqs \o out.reqs
           /\ swapLive' = [swapLive EXCEPT ![name] =
                              IF out.swapped # << >> THEN TRUE
                              ELSE IF out.reverted # << >> THEN FALSE
                              ELSE @]
           /\ IF out.raised
              THEN /\ aborts < MaxAborts
                   /\ pc' = "aborted"
                   /\ aborts' = aborts + 1
                   /\ failRun' = [n \in DOMAIN failRun |-> 0]
                   /\ idx' = idx
                   /\ exitStatus' = 1
              ELSE /\ pc' = pc
                   /\ idx' = idx + 1
                   /\ UNCHANGED <<aborts, failRun, exitStatus>>
    /\ UNCHANGED <<stateFile, config, tasks, started, running, results, probeOut,
                   origUrl, prevOk, stateDisk, stateNull, emailed, auxVars>>

ProcessResult(p, io) == ProcessResultG(p, io, FALSE)

\* main, line 479
has_problems(rs) == \E i \in DOMAIN rs : ~rs[i].res.ok

\* main, line 480
has_changes(sw, rv) == Len(sw) > 0 \/ Len(rv) > 0

\* mutant of ExitCode: a swap or revert counts as a problem
ExitCode_Changes(problems, changes) == IF problems \/ changes THEN 1 ELSE 0

\* main, line 489: sys.exit(0 if not has_problems else 1)
ExitCode(problems, changes) == IF ~problems THEN 0 ELSE 1

\* main, lines 482-486: the alert email is sent only with --email and when there
\* are problems or changes; mail is what send_alert_email then does ("sent",
\* "failed" for a False return, "raise" for an exception escaping it)
Email(send_email, problems, changes, mail) ==
    IF send_email /\ (problems \/ changes) THEN mail ELSE "no"

LoopDone_Early(i, rs) == TRUE

\* run_checks, lines 291 and 328: save_state is reached when the loop over the
\* results has run to its end
LoopDone(i, rs) == i > Len(rs)

\* run_checks, lines 327-330: save_state(state) and return; then main, lines
\* 476-489: report, alert email and exit status.  An exception escaping
\* send_alert_email ends the process with status 1.
SaveState(send_email, mail) ==
    /\ pc = "updating"
    /\ LoopDone(idx, results)
    /\ stateFile' = state
    /\ stateDisk' = "json"
    /\ pc' = "done"
    /\ emailed' = Email(send_email, has_problems(results), has_changes(swapped, reverted), mail)
    /\ exitStatus' = IF emailed' = "raise" THEN 1
                     ELSE ExitCode(has_problems(results), has_changes(swapped, reverted))
    /\ prevOk' = [n \in DOMAIN prevOk |->
                    IF \E i \in DOMAIN results : results[i].name = n
                    THEN IF \E i \in DOMAIN results : results[i].name = n /\ results[i].res.ok
                         THEN "ok" ELSE "failing"
                    ELSE prevOk[n]]
    /\ UNCHANGED <<configFile, config, state, tasks, started, running, results, idx,
                   swapped, reverted, probeOut, revProbes, mutReqs, origUrl,
                   failRun, aborts, swapLive, stateNull, auxVars>>

Next ==
    \/ StartCycle
    \/ StartProbe
    \/ \E i \in running, o \in ProbeOutcomes : CompleteProbe(i, o)
    \/ JoinPool
    \/ \E p \in {"ok", "unreachable", "raise"}, io \in {"ok", "fail"} : ProcessResult(p, io)
    \/ \E send_email \in BOOLEAN, mail \in {"sent", "failed", "raise"} : SaveState(send_email, mail)

Spec == Init /\ [][Next]_vars

----------------------------------------------------------------------------
\* The probe phase alone, on a config with more sources than pool workers.

\* Bound of the model: the number of sources of the large config.
NumPoolSources == 11

PoolSources ==
    << <<"P01", "u01">>, <<"P02", "u02">>, <<"P03", "u03">>, <<"P04", "u04">>,
       <<"P05", "u05">>, <<"P06", "u06">>, <<"P07", "u07">>, <<"P08", "u08">>,
       <<"P09", "u09">>, <<"P10", "u10">>, <<"P11", "u11">>, <<"P12", "u12">>,
       <<"P13", "u13">> >>

PoolDoc == [i \in 1..NumPoolSources |-> Src(PoolSources[i][1], PoolSources[i][2], FALSE)]

\* Bound of the model: on the large config only the MaxOvertake oldest probes
\* in flight may be the next to complete (the small configs have every order).
MaxOvertake == 2

Oldest(run, k) == { i \in run : Cardinality({ j \in run : j < i }) < k }

\* on the large config the outcome of a probe is fixed by its source
PoolOutcome(i) ==
    IF i % 3 = 0 THEN "raise" ELSE IF i % 3 = 1 THEN "ok" ELSE "unreachable"

InitPool ==
    /\ configFile \in InitDocs \cup {PoolDoc}
    /\ InitRest

NextPool ==
    \/ StartCycle
    \/ StartProbe
    \/ \E i \in running, o \in ProbeOutcomes :
          /\ Len(tasks) > 2 => i \in Oldest(running, MaxOvertake) /\ o = PoolOutcome(i)
          /\ CompleteProbe(i, o)
    \/ JoinPool

SpecPool == InitPool /\ [][NextPool]_vars

----------------------------------------------------------------------------
\* The monitor run again and again (a timer starts a cycle after each one), every
\* step of a cycle being taken in the end.
\* The state files a first cycle may meet: none; one written by an earlier
\* run; one that is not JSON; one that is JSON but not an object; one whose
\* entry for C is null.
InitStateFiles ==
    LET two == ("A" :> [consecutive_fails |-> 2, last_error |-> "unreachable",
                        swapped_from |-> None])
    IN  { [disk |-> "absent",  file |-> << >>, nulls |-> {}],
          [disk |-> "json",    file |-> two,   nulls |-> {}],
          [disk |-> "syntax",  file |-> << >>, nulls |-> {}],
          [disk |-> "notdict", file |-> << >>, nulls |-> {}],
          [disk |-> "json",    file |-> two,   nulls |-> {"C"}] }

InitLoad ==
    /\ configFile = <<Src("C", "uC", FALSE), Src("A", "uA", FALSE)>>
    /\ \E f \in InitStateFiles :
          /\ stateDisk = f.disk
          /\ stateFile = f.file
          /\ stateNull = f.nulls
    /\ InitCycle
    /\ AuxIdle

SpecLoad == InitLoad /\ [][Next]_vars

----------------------------------------------------------------------------

\* swap_url_in_config step by step, at the level of the files: up to two
\* monitor processes each make one call.  A document (and a temporary file) is
\* written entry by entry, so a file that is being written holds a prefix.

\* the variables of a check cycle other than the config document
cycleVars == <<stateFile, pc, config, state, tasks, started, running, results,
               idx, swapped, reverted, probeOut, revProbes, mutReqs, origUrl,
               failRun, prevOk, aborts, swapLive, stateDisk, stateNull,
               exitStatus, emailed>>

Procs == {1, 2}

\* the config documents the processes start on
FileDocs ==
    { <<Src("C", "uC", FALSE), Src("A", "uA", FALSE)>>,
      <<Src("A", "uA", FALSE), Src("B", "uB", FALSE)>>,
      <<Src("C", "uC", FALSE), Src("A", "fbA", FALSE)>> }

\* the calls the update loop makes: the failover of A or of B, the revert of A
FileCalls ==
    { [old |-> "uA", new |-> FALLBACK_URLS["A"]],
      [old |-> "uB", new |-> FALLBACK_URLS["B"]],
      [old |-> FALLBACK_URLS["A"], new |-> "uA"] }

\* del d[k]
DictDel(d, k) == [x \in DOMAIN d \ {k} |-> d[x]]

\* mutant of TmpPath: one fixed name for the temporary file
TmpPath_Fixed(p) == 0

\* tempfile.mkstemp(dir=..., suffix=".tmp"): a name no other call has
TmpPath(p) == p

\* mutant of Closed: the file is renamed before all of the text is in it
Closed_Unflushed(wrote, text) == TRUE

\* lines 109-110: the with-block is left once f.write(text) is through and the
\* file is flushed and closed
Closed(wrote, text) == wrote = Len(text)

\* mutant of Unlinked: the except clause leaves the temporary file behind
Unlinked_Kept(files, path) == files

\* line 113: os.unlink(tmp_path)
Unlinked(files, path) == DictDel(files, path)

InitFile ==
    /\ configFile \in FileDocs
    /\ stateFile = << >>
    /\ stateDisk = "absent"
    /\ stateNull = {}
    /\ InitCycle
    /\ tmpFiles = << >>
    /\ probe = << >>
    /\ \E c1 \in FileCalls, c2 \in FileCalls \cup {[old |-> None, new |-> None]} :
          procs = [p \in Procs |->
                     LET c == IF p = 1 THEN c1 ELSE c2
                     IN  [pc |-> IF c.old = None THEN "off" ELSE "call",
                          old |-> c.old, new |-> c.new, doc0 |-> configFile,
                          text |-> << >>, wrote |-> 0, renamed |-> FALSE, ret |-> None]]

\* lines 98-99: text = f.read()
ReadConfig(p) ==
    /\ procs[p].pc = "call"
    /\ procs' = [procs EXCEPT ![p].pc = "read", ![p].text = configFile]
    /\ UNCHANGED <<configFile, tmpFiles, cycleVars, probe>>

\* lines 101-105: return False when old_json is not in text, else replace its
\* first occurrence
Substitute(p) ==
    /\ procs[p].pc = "read"
    /\ LET r == swap_url_in_config(procs[p].text, procs[p].old, procs[p].new, "ok")
       IN  procs' = IF r.ret = "False"
                    THEN [procs EXCEPT ![p].pc = "returned", ![p].ret = "False"]
                    ELSE [procs EXCEPT ![p].pc = "subst", ![p].text = r.doc]
    /\ UNCHANGED <<configFile, tmpFiles, cycleVars, probe>>

\* line 107: mkstemp creates the empty temporary file, or raises (outside the try)
Mkstemp(p, io) ==
    /\ procs[p].pc = "subst"
    /\ IF io = "ok"
       THEN /\ tmpFiles' = DictSet(tmpFiles, TmpPath(p), << >>)
            /\ procs' = [procs EXCEPT ![p].pc = "opened"]
       ELSE /\ tmpFiles' = tmpFiles
            /\ procs' = [procs EXCEPT ![p].pc = "raised", ![p].ret = "raise"]
    /\ UNCHANGED <<configFile, cycleVars, probe>>

\* lines 109-110: f.write(text) puts the next part of the text into the
\* temporary file, or an I/O error enters the except clause
WriteTmp(p, io) ==
    /\ procs[p].pc = "opened"
    /\ ~Closed(procs[p].wrote, procs[p].text)
    /\ IF io = "ok"
       THEN /\ TmpPath(p) \in DOMAIN tmpFiles
            /\ tmpFiles' = [tmpFiles EXCEPT ![TmpPath(p)] =
                               Append(@, procs[p].text[procs[p].wrote + 1])]
            /\ procs' = [procs EXCEPT ![p].wrote = @ + 1]
       ELSE /\ tmpFiles' = tmpFiles
            /\ procs' = [procs EXCEPT ![p].pc = "except"]
    /\ UNCHANGED <<configFile, cycleVars, probe>>

\* line 111: os.replace(tmp_path, CONFIG_FILE) renames the temporary file over
\* the config file in one step, or raises
ReplaceConfig(p, io) ==
    /\ procs[p].pc = "opened"
    /\ Closed(procs[p].wrote, procs[p].text)
    /\ IF io = "ok" /\ TmpPath(p) \in DOMAIN tmpFiles
       THEN /\ configFile' = tmpFiles[TmpPath(p)]
            /\ tmpFiles' = DictDel(tmpFiles, TmpPath(p))
            /\ procs' = [procs EXCEPT ![p].pc = "returned", ![p].ret = "True",
                                      ![p].renamed = TRUE]
       ELSE /\ configFile' = configFile
            /\ tmpFiles' = tmpFiles
            /\ procs' = [procs EXCEPT ![p].pc = "except"]
    /\ UNCHANGED <<cycleVars, probe>>

\* lines 112-114: except Exception: os.unlink(tmp_path); raise
ExceptUnlink(p) ==
    /\ procs[p].pc = "except"
    /\ tmpFiles' = Unlinked(tmpFiles, TmpPath(p))
    /\ procs' = [procs EXCEPT ![p].pc = "raised", ![p].ret = "raise"]
    /\ UNCHANGED <<configFile, cycleVars, probe>>

\* run_checks after a call that returned: the loop goes on, save_state, return
ReturnAndSave(p) ==
    /\ procs[p].pc = "returned"
    /\ procs' = [procs EXCEPT ![p].pc = "saved"]
    /\ UNCHANGED <<configFile, tmpFiles, cycleVars, probe>>

\* the process is killed inside swap_url_in_config
Crash(p) ==
    /\ procs[p].pc \in {"call", "read", "subst", "opened", "except"}
    /\ procs' = [procs EXCEPT ![p].pc = "crashed"]
    /\ UNCHANGED <<configFile, tmpFiles, cycleVars, probe>>

NextFile ==
    \/ \E p \in Procs : ReadConfig(p)
    \/ \E p \in Procs : Substitute(p)
    \/ \E p \in Procs, io \in {"ok", "fail"} : Mkstemp(p, io)
    \/ \E p \in Procs, io \in {"ok", "fail"} : WriteTmp(p, io)
    \/ \E p \in Procs, io \in {"ok", "fail"} : ReplaceConfig(p, io)
    \/ \E p \in Procs : ExceptUnlink(p)
    \/ \E p \in Procs : ReturnAndSave(p)
    \/ \E p \in Procs : Crash(p)

SpecFile == InitFile /\ [][NextFile]_vars

----------------------------------------------------------------------------

\* check_source on one response.  Time is counted in ticks of 1/50 hour, so
\* that ages fall between the tenths of an hour newest_age_hours is rounded to.

\* age_hours = (now_ts - newest_ts) / 3600: ticks in one hour
TicksPerHour == 50

\* line 157: now_ts = time.time(), in ticks
now_ts == 10000

\* Bound of the model: a feed holds at most MaxItems articles.
MaxItems == 2

\* the ages (in ticks) of the dated articles of the feeds looked at
Ages == {-3, 0, 1200, 1201, 3598, 3600, 3601, 3602, 4000}

\* What one article gives for a date: no usable timestamp (no date field, an
\* empty one, or a string no format parses), a timestamp, or a date whose
\* conversion raises (dt.timestamp() out of range at line 231, a JSON item that
\* is not an object at line 177).
ItemDates ==
    {[date |-> "none", ts |-> 0], [date |-> "raise", ts |-> 0]}
        \cup {[date |-> "ts", ts |-> now_ts - a] : a \in Ages}

\* the article lists of at most MaxItems articles
ItemLists == UNION {[1..k -> ItemDates] : k \in 0..MaxItems}

\* What a probe can meet: the fetch raises; the body is empty; the body does
\* not parse; the body is JSON but not of the shape {"result": {"data": [...]}}
\* (json only); the body parses and holds the articles.
Responses ==
    {[fetch |-> "raise", raw |-> "empty", body |-> "garbage", items |-> << >>],
     [fetch |-> "ok", raw |-> "empty", body |-> "garbage", items |-> << >>],
     [fetch |-> "ok", raw |-> "data", body |-> "garbage", items |-> << >>],
     [fetch |-> "ok", raw |-> "data", body |-> "shape", items |-> << >>]}
        \cup {[fetch |-> "ok", raw |-> "data", body |-> "doc", items |-> its] : its \in ItemLists}

\* newest_age_hours is << >> for None and <<t>> for t tenths of an hour
NoAge == << >>

\* the result check_source starts from (line 141) with an error set
Failed(error) == [ok |-> FALSE, error |-> error, article_count |-> 0, newest_age_hours |-> NoAge]

\* lines 176-184, 223-233: the timestamps the articles yield
Usable(items) == {items[i].ts : i \in {j \in DOMAIN items : items[j].date = "ts"}}

\* lines 181, 232: the newest of them
Newest(items) == CHOOSE t \in Usable(items) : \A u \in Usable(items) : u <= t

\* round(age_hours, 1), in tenths of an hour, of an age in ticks
Round1(age) == (age + 2) \div 5

\* mutant of IsStale: an age equal to the threshold is stale
IsStale_Inclusive(age, max_age_hours) == age >= max_age_hours * TicksPerHour

\* lines 189, 238: age_hours > max_age_hours
IsStale(age, max_age_hours) == age > max_age_hours * TicksPerHour

\* mutant of Freshness: the timestamp of the first dated article decides
Freshness_First(items, max_age_hours) ==
    LET dated == {j \in DOMAIN items : items[j].date = "ts"}
        first == CHOOSE j \in dated : \A k \in dated : j <= k
        age == now_ts - items[first].ts
    IN  IF dated = {}
        THEN [ok |-> TRUE, error |-> None, article_count |-> Len(items),
              newest_age_hours |-> NoAge]
        ELSE [ok |-> ~IsStale(age, max_age_hours),
              error |-> IF IsStale(age, max_age_hours) THEN "stale" ELSE None,
              article_count |-> Len(items), newest_age_hours |-> <<Round1(age)>>]

\* lines 172-191, 219-244: the article count, then the freshness of the newest
\* timestamp when there is one
Freshness(items, max_age_hours) ==
    LET newest_ts == Newest(items)
        age == now_ts - newest_ts
    IN  IF Usable(items) = {}
        THEN [ok |-> TRUE, error |-> None, article_count |-> Len(items),
              newest_age_hours |-> NoAge]
        ELSE [ok |-> ~IsStale(age, max_age_hours),
              error |-> IF IsStale(age, max_age_hours) THEN "stale" ELSE None,
              article_count |-> Len(items), newest_age_hours |-> <<Round1(age)>>]

\* check_source(name, url, source_type, max_age_hours) on the response r: what
\* it returns, or that it raises
check_source(source_type, r, max_age_hours) ==
    LET ret(res) == [raised |-> FALSE, res |-> res]
        exc == [raised |-> TRUE, res |-> Failed("exception")]
    IN  IF r.fetch = "raise" THEN ret(Failed("unreachable"))
        ELSE IF r.raw = "empty" THEN ret(Failed("empty response"))
        ELSE IF r.body = "garbage"
        THEN ret(Failed(IF source_type = "json" THEN "JSON parse error" ELSE "XML parse error"))
        ELSE IF r.body = "shape" THEN exc
        ELSE IF r.items = << >> THEN ret(Failed("empty feed (0 articles)"))
        ELSE IF \E i \in DOMAIN r.items : r.items[i].date = "raise" THEN exc
        ELSE ret(Freshness(r.items, max_age_hours))

InitProbe ==
    /\ configFile = << >>
    /\ stateFile = << >>
    /\ stateDisk = "absent"
    /\ stateNull = {}
    /\ InitCycle
    /\ tmpFiles = << >>
    /\ procs = << >>
    /\ \E st \in {"json", "rss"}, r \in Responses, m \in {24, 72} :
          /\ st = "rss" => r.body # "shape"
          /\ probe = [source_type |-> st, response |-> r, max_age_hours |-> m,
                      done |-> FALSE, raised |-> FALSE, result |-> Failed(None)]

\* one call of check_source
RunProbe ==
    /\ probe # << >>
    /\ ~probe.done
    /\ LET out == check_source(probe.source_type, probe.response, probe.max_age_hours)
       IN  probe' = [probe EXCEPT !.done = TRUE, !.raised = out.raised, !.result = out.res]
    /\ UNCHANGED <<configFile, cycleVars, tmpFiles, procs>>

NextProbe == RunProbe

SpecProbe == InitProbe /\ [][NextProbe]_vars

----------------------------------------------------------------------------

\* A source may here fail for ever (the counts from MaxFails on are taken
\* together); no exception ends a cycle.
NextLive ==
    \/ StartCycle
    \/ StartProbe
    \/ \E i \in running, o \in ProbeOutcomes : CompleteProbeG(i, o, TRUE)
    \/ JoinPool
    \/ \E p \in {"ok", "unreachable"} : ProcessResultG(p, "ok", TRUE)
    \/ \E send_email \in BOOLEAN, mail \in {"sent", "failed", "raise"} : SaveState(send_email, mail)

SpecLive == Init /\ [][NextLive]_vars /\ WF_vars(NextLive)

----------------------------------------------------------------------------
\* Vocabulary of the properties.

\* the configured sources
Names == DOMAIN origUrl

\* the URL of source n in the config document on disk
LiveUrl(n) == _get_current_url(load_config(configFile), n)

\* the persisted swapped_from of source n
PersistedSwappedFrom(n) == GetEntry(stateFile, n).swapped_from

\* the swap_url_in_config calls a step adds
NewReqs == { mutReqs'[i] : i \in (Len(mutReqs) + 1)..Len(mutReqs') }

\* the revert events a step adds
NewReverts == { reverted'[i] : i \in (Len(reverted) + 1)..Len(reverted') }

\* the swap events a step adds
NewSwaps == { swapped'[i] : i \in (Len(swapped) + 1)..Len(swapped') }

\* C1: after every completed cycle (no cycle having been cut short), for every
\* source, swapped_from in the persisted state is set if and only if the URL of
\* the source in the config document is not its original URL.
C1_SwappedFromIffUrlNotOriginal ==
    (pc = "done" /\ Clean) =>
        \A n \in Names : (PersistedSwappedFrom(n) # None) <=> (LiveUrl(n) # origUrl[n])

\* C2: no source is swapped twice without an intervening revert: while
\* swapped_from is set it is not overwritten (it is kept, or cleared by a revert
\* of that source), and once a failover has been applied for a source no further
\* failover mutation is requested for it until a revert has been applied.
C2_NoSecondSwapBeforeRevert ==
    [][\A n \in Names :
          /\ (pc = "updating" /\ GetEntry(state, n).swapped_from # None) =>
                \/ GetEntry(state', n).swapped_from = GetEntry(state, n).swapped_from
                \/ /\ GetEntry(state', n).swapped_from = None
                   /\ \E e \in NewReverts : e[1] = n
          /\ swapLive[n] => ~(\E r \in NewReqs : r.name = n /\ r.kind = "swap")
      ]_vars

\* C3: a revert (a revert event, swapped_from cleared) happens in a step only if
\* that step probed the original URL, which is the value of swapped_from and not
\* the live URL, and the probe returned ok.
C3_RevertOnlyAfterOkProbeOfOriginal ==
    [][\A n \in Names :
          ( \/ \E e \in NewReverts : e[1] = n
            \/ /\ pc = "updating"
               /\ GetEntry(state, n).swapped_from # None
               /\ GetEntry(state', n).swapped_from = None )
          => /\ [name |-> n, url |-> GetEntry(state, n).swapped_from, out |-> "ok"] \in revProbes'
             /\ GetEntry(state, n).swapped_from # _get_current_url(config, n)
             /\ \A q \in revProbes' \ revProbes : q.name = n /\ q.out = "ok"
      ]_vars

\* C3 witness: a cycle has ended in which a source was reverted
C3_Witness == pc = "done" /\ reverted # << >>

\* the literal json.dumps gives for URL u occurs in document doc
Verbatim(doc, u) == \E i \in DOMAIN doc : doc[i].lit = Dumps(u)

\* the persisted consecutive_fails of source n
PersistedFails(n) == GetEntry(stateFile, n).consecutive_fails

\* the swap_url_in_config calls of this cycle that ask for a failover of source n
SwapReqs(n) == { i \in DOMAIN mutReqs : mutReqs[i].name = n /\ mutReqs[i].kind = "swap" }

\* the swap events of this cycle for source n
SwapEvents(n) == { i \in DOMAIN swapped : swapped[i][1] = n }

C5_RequestOnlyWhen ==
    \A r \in NewReqs : r.kind = "swap" =>
        /\ pc = "updating" /\ idx <= Len(results) /\ r.name = results[idx].name
        /\ ~results[idx].res.ok
        /\ GetEntry(state', r.name).consecutive_fails >= FAIL_THRESHOLD
        /\ GetEntry(state', r.name).consecutive_fails = GetEntry(state, r.name).consecutive_fails + 1
        /\ r.name \in DOMAIN FALLBACK_URLS
        /\ GetEntry(state, r.name).swapped_from = None

\* C5, last sentence: no failover is ever requested for a source without a
\* registered fallback, and its swapped_from is never set.
C5_NoFallbackNeverSwapped ==
    \A n \in Names \ DOMAIN FALLBACK_URLS :
        /\ SwapReqs(n) = {} /\ SwapEvents(n) = {}
        /\ GetEntry(state, n).swapped_from = None
        /\ PersistedSwappedFrom(n) = None

\* C5, "in particular", as claimed: after a first or second failing cycle there
\* is no swap; after the third failing cycle of a source with a registered
\* fallback the URL has been swapped exactly once (in this cycle, unless the
\* source was swapped before these failures began).
C5_ThirdCycleAsClaimed ==
    (pc = "done" /\ Clean) =>
        \A n \in Names \cap DOMAIN FALLBACK_URLS :
            /\ PersistedFails(n) \in {1, 2} => SwapReqs(n) = {} /\ SwapEvents(n) = {}
            /\ PersistedFails(n) = FAIL_THRESHOLD =>
                  \/ Cardinality(SwapEvents(n)) = 1
                  \/ SwapEvents(n) = {} /\ SwapReqs(n) = {} /\ PersistedSwappedFrom(n) # None

C5_ThirdCycle ==
    (pc = "done" /\ Clean) =>
        \A n \in Names \cap DOMAIN FALLBACK_URLS :
            /\ PersistedFails(n) \in {1, 2} => SwapReqs(n) = {} /\ SwapEvents(n) = {}
            /\ PersistedFails(n) = FAIL_THRESHOLD =>
                  \/ /\ Cardinality(SwapEvents(n)) = 1
                     /\ \E i \in SwapReqs(n) :
                           /\ SwapReqs(n) = {i}
                           /\ mutReqs[i].ret = "True"
                           /\ PersistedSwappedFrom(n) = mutReqs[i].old
                  \/ /\ SwapEvents(n) = {} /\ SwapReqs(n) = {}
                     /\ PersistedSwappedFrom(n) # None
                  \/ /\ SwapEvents(n) = {}
                     /\ PersistedSwappedFrom(n) = None
                     /\ \E i \in SwapReqs(n) :
                           /\ SwapReqs(n) = {i}
                           /\ mutReqs[i].ret = "False"
                           /\ ~Verbatim(configFile, mutReqs[i].old)

Status(n) ==
    IF \E i \in DOMAIN results : results[i].name = n /\ results[i].res.ok
    THEN "ok" ELSE "failing"

\* C7: after any sequence of completed cycles (and before the first one) the
\* persisted consecutive_fails of every source is the number of failing probe
\* results since its most recent ok result, zero for a source never seen.
C7_CounterIsFailuresSinceLastOk ==
    (pc \in {"idle", "done"} /\ Clean) =>
        \A n \in Names : PersistedFails(n) = failRun[n]

\* C7 witness: after completed cycles one source has failed twice in a row and
\* another has been reset by a success after failing
C7_Witness ==
    /\ pc = "done" /\ Clean
    /\ \E n \in Names : PersistedFails(n) = 2
    /\ \E n \in Names : PersistedFails(n) = 0 /\ prevOk[n] = "ok"
    /\ Len(swapped) = 0

\* a cycle is being completed in which every source has the status it had in
\* the previous completed cycle
UnchangedStatusCycle ==
    /\ pc = "updating" /\ pc' = "done" /\ Clean
    /\ \A n \in Names : prevOk[n] = Status(n)

C10_ProbeExceptionDoesNotAbort ==
    /\ ~(pc = "aborted" /\ \E q \in revProbes : q.out = "raise")
    /\ pc \in {"updating", "done", "aborted"} =>
          \A i \in DOMAIN tasks :
              \E j \in DOMAIN results :
                  /\ results[j].name = tasks[i]
                  /\ results[j].res = IF probeOut[i] = "raise"
                                      THEN [ok |-> FALSE, error |-> "exception",
                                            article_count |-> 0, newest_age_hours |-> None]
                                      ELSE CheckResult(probeOut[i])
    /\ pc = "done" =>
          \A i \in DOMAIN tasks :
              /\ tasks[i] \in DOMAIN stateFile
              /\ (stateFile[tasks[i]].consecutive_fails = 0) <=> (Status(tasks[i]) = "ok")

\* C9: the probe phase never has more than max_workers probes in flight, can
\* always take a step until every probe is done, and ends with a result mapping
\* of exactly one entry per configured source, each entry being the result of
\* that source's own probe whatever the completion order.
C9_OneResultPerSource ==
    /\ Cardinality(running) <= MaxWorkers
    /\ pc = "probing" =>
          ENABLED (StartProbe \/ JoinPool \/ \E i \in running : CompleteProbe(i, "ok"))
    /\ pc = "updating" =>
          /\ Len(results) = Len(tasks)
          /\ \A i \in DOMAIN tasks :
                \E j \in DOMAIN results :
                    /\ results[j].name = tasks[i]
                    /\ results[j].res = Collect(probeOut[i])
                    /\ \A k \in DOMAIN results : results[k].name = tasks[i] => k = j

\* C9 witness: more sources than workers, results complete, collected in an
\* order that is not the submission order, one of them synthetic
C9_Witness ==
    /\ pc = "updating"
    /\ Len(tasks) > MaxWorkers
    /\ Len(results) = Len(tasks)
    /\ results[1].name # tasks[1]
    /\ \E j \in DOMAIN results : results[j].res.error = "exception"

\* source n is swapped according to the persisted state
Swapped(n) == n \in Names /\ PersistedSwappedFrom(n) # None

\* a probe of the original URL of n has failed or raised in this cycle
BadOriginalProbe(n) == \E q \in revProbes : q.name = n /\ q.out # "ok"

\* a cycle starts on a swapped source whose config URL is not its swapped_from
PendingAtCycleStart(n) ==
    /\ pc = "probing" /\ started = 0
    /\ Swapped(n)
    /\ LiveUrl(n) # PersistedSwappedFrom(n)

\* something has kept this cycle from reverting n: the probe of the live URL
\* failed, the probe of the original URL failed or raised, swap_url_in_config
\* did not apply the revert, or the cycle was ended by an exception
RevertHindered(n) ==
    \/ \E i \in DOMAIN results : results[i].name = n /\ ~results[i].res.ok
    \/ BadOriginalProbe(n)
    \/ \E i \in DOMAIN mutReqs : mutReqs[i].name = n /\ mutReqs[i].ret # "True"
    \/ pc = "aborted"

----------------------------------------------------------------------------
\* C12: a swap_url_in_config call whose old_url is not verbatim in the config
\* document returns False and leaves the document as it was; the step that
\* makes the call leaves swapped_from of the source as it was, emits no swap or
\* revert event, and the update loop goes on to the next result (the cycle is
\* not ended); once the loop is through, the state is saved.
C12_NotFoundIsNoOp ==
    [][\A r \in NewReqs :
          ~Verbatim(configFile, r.old) =>
              /\ r.ret = "False"
              /\ configFile' = configFile
              /\ GetEntry(state', r.name).swapped_from = GetEntry(state, r.name).swapped_from
              /\ swapped' = swapped
              /\ reverted' = reverted
              /\ pc' = "updating"
              /\ idx' = idx + 1]_vars

\* C12 witness: a cycle is done in which the failover of A was asked for and
\* returned False; the other source was processed after it, the state is saved
\* with A not swapped, and no event was emitted
C12_Witness ==
    /\ pc = "done"
    /\ \E i \in DOMAIN mutReqs : mutReqs[i].name = "A" /\ mutReqs[i].ret = "False"
    /\ Len(results) = 2 /\ results[1].name = "A"
    /\ stateFile = state
    /\ PersistedSwappedFrom("A") = None
    /\ swapped = << >> /\ reverted = << >>

----------------------------------------------------------------------------
----------------------------------------------------------------------------
\* C20: every swap_url_in_config call, every change of the config document
\* and every write of the state document happens in a step in which no pooled
\* probe is in flight, every task has been started and every source has its
\* result; the steps of the update loop make at most one swap_url_in_config
\* call each, and the state is written when the loop is through.
C20_MutationsAfterProbePhase ==
    [][(NewReqs # {} \/ configFile' # configFile \/ stateFile' # stateFile) =>
          /\ pc = "updating"
          /\ running = {}
          /\ started = Len(tasks)
          /\ \A i \in DOMAIN tasks : \E j \in DOMAIN results : results[j].name = tasks[i]
          /\ Len(mutReqs') <= Len(mutReqs) + 1
          /\ stateFile' # stateFile => idx > Len(results)]_vars

\* C20 witness: a cycle of two sources is done in which the config document was
\* changed by a swap and the state was saved
C20_Witness ==
    /\ pc = "done"
    /\ Len(tasks) = 2 /\ running = {} /\ Len(results) = 2
    /\ \E i \in DOMAIN mutReqs : mutReqs[i].ret = "True"
    /\ stateFile = state /\ stateFile # << >>

----------------------------------------------------------------------------
\* C14: a run that completes (the state is saved and no exception escapes the
\* alert email) ends with status 0 if every source of the config has an ok
\* result in this cycle and with status 1 otherwise, whatever swaps or reverts
\* the cycle made and whatever became of the alert email.
C14_ExitStatusIffAllOk ==
    (pc = "done" /\ emailed # "raise") =>
        /\ exitStatus \in {0, 1}
        /\ exitStatus = 0 <=>
              \A n \in Names : \E i \in DOMAIN results : results[i].name = n /\ results[i].res.ok

\* C14 witness: a run ends with status 0 in which a source was reverted and
\* the alert email could not be sent
C14_Witness ==
    /\ pc = "done"
    /\ exitStatus = 0
    /\ reverted # << >>
    /\ emailed = "failed"

----------------------------------------------------------------------------
\* the state file exists and is not a JSON object of entry objects
Malformed == stateDisk \in {"syntax", "notdict"} \/ stateNull # {}

\* C15: a cycle that starts without a state file runs with the empty mapping
\* and is not ended by the load; while the state file is malformed no probe is
\* issued, every started cycle ends at the load, and neither the config
\* document nor the state file is changed.
C15_StateLoading ==
    [][/\ (stateDisk = "absent" /\ pc \in {"idle", "done", "aborted"} /\ pc' # pc) =>
              (pc' = "probing" /\ state' = << >>)
       /\ Malformed =>
              /\ pc' \in {"idle", "aborted"}
              /\ started' = 0 /\ running' = {}
              /\ configFile' = configFile
              /\ stateFile' = stateFile /\ stateDisk' = stateDisk]_vars

----------------------------------------------------------------------------
\* the only process that calls swap_url_in_config is process 1
Alone == procs[2].pc = "off"

\* what swap_url_in_config(old_url, new_url) of process p makes of a document
Substituted(p, doc) == swap_url_in_config(doc, procs[p].old, procs[p].new, "ok").doc

\* C11: with one process calling swap_url_in_config, at every step of the call
\* and after a crash at any of them, the config document on disk is the whole
\* document from before the call or the whole document with the substitution
\* applied; it is the latter only once the rename has happened.
C11_ConfigWriteAtomic ==
    Alone =>
        /\ configFile \in {procs[1].doc0, Substituted(1, procs[1].doc0)}
        /\ ~procs[1].renamed => configFile = procs[1].doc0
        /\ procs[1].renamed => configFile = Substituted(1, procs[1].doc0)

\* C11 witness: the process has crashed with half of the new document in the
\* temporary file, and the config document is the one from before the call
C11_Witness ==
    /\ Alone
    /\ procs[1].pc = "crashed"
    /\ procs[1].wrote = 1
    /\ TmpPath(1) \in DOMAIN tmpFiles
    /\ tmpFiles[TmpPath(1)] = SubSeq(procs[1].text, 1, 1)
    /\ configFile = procs[1].doc0

\* C13: a call that has raised has left no temporary file and has not renamed
\* anything over the config document (which, if no other process writes, is the
\* document from before the call); the exception is not caught: the process has
\* not gone on to save the state.
C13_WriteFailurePropagates ==
    \A p \in Procs :
        procs[p].pc = "raised" =>
            /\ TmpPath(p) \notin DOMAIN tmpFiles
            /\ ~procs[p].renamed
            /\ procs[p].ret = "raise"
            /\ Alone => configFile = procs[p].doc0

\* C13 witness: the write failed after part of the text was in the temporary
\* file; the file is gone and the call has raised
C13_Witness ==
    /\ Alone
    /\ procs[1].pc = "raised"
    /\ procs[1].wrote = 1
    /\ tmpFiles = << >>
    /\ configFile = procs[1].doc0

\* the whole documents there are: the one the processes started on and the
\* texts the processes have computed at line 105
WholeDocs ==
    {procs[1].doc0} \cup
    {procs[p].text : p \in {q \in Procs : procs[q].pc \in {"subst", "opened", "except",
                                                          "returned", "saved", "raised"}}}

\* C19: with two processes interleaving their reads, writes, renames and saves
\* in any order, the config document on disk is at every moment the document
\* the processes started on or the whole text one of them computed.
C19_OverlappingCyclesWholeDocument ==
    configFile \in WholeDocs

\* C19 witness: both processes have renamed their document and saved; the
\* config document is the text of process 2, in which the substitution of
\* process 1 is lost
C19_Witness ==
    /\ procs[1].pc = "saved" /\ procs[1].renamed
    /\ procs[2].pc = "saved" /\ procs[2].renamed
    /\ configFile = procs[2].text
    /\ configFile # procs[1].text
    /\ ~Verbatim(configFile, procs[1].new)

----------------------------------------------------------------------------
\* the first step of check_source that fails on the response of the probe,
\* "none" when no step fails; a body that is JSON of another shape holds no
\* article, and an article whose date cannot be converted has no usable
\* timestamp
FirstFailingStep ==
    LET r == probe.response
        dated == {i \in DOMAIN r.items : r.items[i].date = "ts"}
    IN  IF r.fetch = "raise" THEN "unreachable"
        ELSE IF r.raw = "empty" THEN "empty response"
        ELSE IF r.body = "garbage" THEN "parse error"
        ELSE IF r.body = "shape" \/ r.items = << >> THEN "empty feed"
        ELSE IF \E i \in dated :
                   /\ \A j \in dated : r.items[j].ts <= r.items[i].ts
                   /\ now_ts - r.items[i].ts > probe.max_age_hours * TicksPerHour
        THEN "stale"
        ELSE "none"

\* the error kind of a returned result
ErrorKind(res) ==
    IF res.error \in {"JSON parse error", "XML parse error"} THEN "parse error"
    ELSE IF res.error = "empty feed (0 articles)" THEN "empty feed"
    ELSE IF res.error = None THEN "none"
    ELSE res.error

\* C17: check_source returns a result for every response; its error is that of
\* the first failing step in the order unreachable, empty response, parse
\* error, empty feed, stale; ok is true exactly when no step fails;
\* article_count is 0 for the first four; with no usable timestamp the result
\* is ok with newest_age_hours absent.
C17_ClassifiedByFirstFailingStep ==
    probe # << >> /\ probe.done =>
        /\ ~probe.raised
        /\ ErrorKind(probe.result) = FirstFailingStep
        /\ probe.result.ok <=> FirstFailingStep = "none"
        /\ FirstFailingStep \in {"unreachable", "empty response", "parse error", "empty feed"}
              => probe.result.article_count = 0
        /\ ( /\ FirstFailingStep = "none"
             /\ \A i \in DOMAIN probe.response.items : probe.response.items[i].date # "ts" )
              => probe.result.ok /\ probe.result.newest_age_hours = NoAge

\* the feed of the probe parsed, holds articles, and the dates of all of them
\* could be looked at
Dated ==
    /\ probe # << >>
    /\ probe.response.fetch = "ok" /\ probe.response.raw = "data"
    /\ probe.response.body = "doc"
    /\ \A i \in DOMAIN probe.response.items : probe.response.items[i].date # "raise"
    /\ \E i \in DOMAIN probe.response.items : probe.response.items[i].date = "ts"

\* the age in ticks of the newest article of the probe
NewestAge ==
    LET its == probe.response.items
        dated == {i \in DOMAIN its : its[i].date = "ts"}
        newest == CHOOSE i \in dated : \A j \in dated : its[j].ts <= its[i].ts
    IN  now_ts - its[newest].ts

\* C18: for a feed with at least one usable timestamp the result is stale
\* (ok false) if and only if now minus the newest timestamp is greater than the
\* threshold, so an age equal to the threshold is ok; in both cases the result
\* carries the number of articles found and the age of the newest one, rounded
\* to a tenth of an hour.
C18_StaleIffNewestOlderThanThreshold ==
    (Dated /\ probe.done) =>
        /\ ~probe.raised
        /\ probe.result.ok <=> ~(NewestAge > probe.max_age_hours * TicksPerHour)
        /\ probe.result.error = IF NewestAge > probe.max_age_hours * TicksPerHour
                                THEN "stale" ELSE None
        /\ probe.result.article_count = Len(probe.response.items)
        /\ probe.result.newest_age_hours = <<(NewestAge + 2) \div 5>>

\* C18 witness: one article aged 80 hours with a threshold of 72 hours gives
\* ok false, stale, article_count 1 and an age of 80.0 hours
C18_Witness ==
    /\ Dated /\ probe.done
    /\ probe.max_age_hours = 72
    /\ Len(probe.response.items) = 1
    /\ probe.response.items[1].ts = now_ts - 80 * TicksPerHour
    /\ probe.result = [ok |-> FALSE, error |-> "stale", article_count |-> 1,
                       newest_age_hours |-> <<800>>]

(***************************************************************************)
(* _parse_date_flexible (lines 52-71).  A date string is a sequence of     *)
(* lexical tokens: "RFCDATE" stands for "Mon, 02 Jan 2023", "ISODATE" for  *)
(* "2023-01-02", "TIME" for "08:00:00", "SP" for one whitespace character, *)
(* "T" for the letter T, "WORD" for "yesterday"; the offsets stand for     *)
(* themselves.  The two library parsers are modelled by the strings they   *)
(* accept and the datetime they build (CPython 3.11).  A datetime is       *)
(* [wall, off]: the wall-clock hour and the offset in hours, off = << >>   *)
(* for a naive datetime.  An optional datetime is a sequence of length at  *)
(* most one.                                                               *)
(***************************************************************************)
MaxGap == 2

Offsets4 == {"+0000", "+0800"}

OffsetsColon == {"+08:00"}

OffsetHours(t) == IF t = "+0000" THEN 0 ELSE 8

Spaces(n) == [i \in 1..n |-> "SP"]

DateStrings ==
    { Spaces(lead) \o date \o sep \o time \o Spaces(gap) \o off \o Spaces(trail) :
        lead \in 0..1,
        date \in {<< >>, <<"RFCDATE">>, <<"ISODATE">>, <<"WORD">>},
        sep \in {<< >>, <<"T">>, <<"SP">>},
        time \in {<< >>, <<"TIME">>},
        gap \in 0..MaxGap,
        off \in {<< >>} \cup { <<o>> : o \in Offsets4 \cup OffsetsColon },
        trail \in 0..1 }

RECURSIVE LStrip(_)
LStrip(s) == IF s # << >> /\ Head(s) = "SP" THEN LStrip(Tail(s)) ELSE s

RECURSIVE RStrip(_)
RStrip(s) ==
    IF s # << >> /\ s[Len(s)] = "SP" THEN RStrip(SubSeq(s, 1, Len(s) - 1)) ELSE s

\* str.strip() (line 54)
Strip(s) == RStrip(LStrip(s))

NotSpace(t) == t # "SP"

Naive(h) == [wall |-> h, off |-> << >>]

Aware(h, o) == [wall |-> h, off |-> <<o>>]

Parsed(dt) == [exc |-> FALSE, dt |-> <<dt>>]

ParseError == [exc |-> TRUE, dt |-> << >>]

\* email.utils.parsedate_to_datetime (line 58): the fields are separated by
\* whitespace, a sign also starts a field; a +HHMM zone gives an aware
\* datetime, a zone it does not understand gives a naive one
parsedate_to_datetime(s) ==
    IF Len(s) >= 2 /\ s[1] = "RFCDATE" /\ s[2] = "SP"
    THEN LET f == SelectSeq(Tail(s), NotSpace)
         IN  IF f = <<"TIME">> THEN Parsed(Naive(8))
             ELSE IF Len(f) = 2 /\ f[1] = "TIME" /\ f[2] \in Offsets4
                  THEN Parsed(Aware(8, OffsetHours(f[2])))
             ELSE IF Len(f) = 2 /\ f[1] = "TIME" /\ f[2] \in OffsetsColon
                  THEN Parsed(Naive(8))
             ELSE IF Len(f) = 1 /\ f[1] \in OffsetsColon
                  THEN Parsed(Naive(OffsetHours(f[1])))
             ELSE ParseError
    ELSE ParseError

\* datetime.fromisoformat (lines 62 and 68): a date, optionally one
\* separator character and a time, optionally an offset after at most one
\* whitespace character; a sign directly after the date is taken for the
\* separator and the digits after it for the time
fromisoformat(s) ==
    IF s = << >> \/ s[1] # "ISODATE" THEN ParseError
    ELSE IF Len(s) = 1 THEN Parsed(Naive(0))
    ELSE IF Len(s) = 2
         THEN IF s[2] \in Offsets4 \cup OffsetsColon
              THEN Parsed(Naive(OffsetHours(s[2])))
              ELSE ParseError
    ELSE IF s[2] \in {"T", "SP"} /\ s[3] = "TIME"
         THEN LET rest == SubSeq(s, 4, Len(s))
                  zone == IF rest # << >> /\ rest[1] = "SP" THEN Tail(rest) ELSE rest
              IN  IF rest = << >> THEN Parsed(Naive(8))
                  ELSE IF Len(zone) = 1 /\ zone[1] \in Offsets4 \cup OffsetsColon
                       THEN Parsed(Aware(8, OffsetHours(zone[1])))
                  ELSE ParseError
    ELSE ParseError

NormaliseOffset_Identity(s) == s

\* re.sub(r'\s*([+-]\d{4})$', r' \1', s) (line 65): the whitespace before a
\* trailing +HHMM offset becomes one space
NormaliseOffset(s) ==
    IF s # << >> /\ s[Len(s)] \in Offsets4
    THEN RStrip(SubSeq(s, 1, Len(s) - 1)) \o <<"SP", s[Len(s)]>>
    ELSE s

\* what a try block hands on: the parser's value, or the exception when the
\* block has no handler for it
Try(r, handled) == [raised |-> r.exc /\ ~handled, failed |-> r.exc, dt |-> r.dt]

NoDate == [raised |-> FALSE, failed |-> FALSE, dt |-> << >>]

_parse_date_flexible(date_str) ==
    LET s == Strip(date_str)
        rfc == Try(parsedate_to_datetime(s), TRUE)
        iso == Try(fromisoformat(s), TRUE)
        cleaned == NormaliseOffset(s)
        iso2 == Try(fromisoformat(cleaned), TRUE)
    IN  IF s = << >> THEN NoDate
        ELSE IF rfc.raised \/ ~rfc.failed THEN rfc
        ELSE IF iso.raised \/ ~iso.failed THEN iso
        ELSE IF cleaned # s /\ (iso2.raised \/ ~iso2.failed) THEN iso2
        ELSE NoDate

\* datetime.timestamp() of an aware datetime, in hours of the day (line 231)
UtcHour(dt) == dt.wall - dt.off[1]

InitDate ==
    /\ configFile = << >>
    /\ stateFile = << >>
    /\ stateDisk = "absent"
    /\ stateNull = {}
    /\ InitCycle
    /\ tmpFiles = << >>
    /\ procs = << >>
    /\ \E d \in DateStrings :
          probe = [date_str |-> d, done |-> FALSE, out |-> NoDate]

\* one call of _parse_date_flexible
ParseDate ==
    /\ probe # << >>
    /\ ~probe.done
    /\ probe' = [probe EXCEPT !.done = TRUE, !.out = _parse_date_flexible(probe.date_str)]
    /\ UNCHANGED <<configFile, cycleVars, tmpFiles, procs>>

NextDate == ParseDate

SpecDate == InitDate /\ [][NextDate]_vars

Example1 == <<"RFCDATE", "SP", "TIME", "SP", "+0000">>

Example2 == <<"ISODATE", "T", "TIME", "+08:00">>

Example3 == <<"ISODATE", "SP", "TIME", "SP", "SP", "+0800">>

Example4 == <<"WORD">>

\* the parse attempts of lines 57-70 in their order, as a specification of
\* the result
FirstSuccess(s) ==
    IF ~parsedate_to_datetime(s).exc THEN parsedate_to_datetime(s).dt
    ELSE IF ~fromisoformat(s).exc THEN fromisoformat(s).dt
    ELSE IF NormaliseOffset(s) # s /\ ~fromisoformat(NormaliseOffset(s)).exc
         THEN fromisoformat(NormaliseOffset(s)).dt
    ELSE << >>

\* C21: _parse_date_flexible never raises; its result is that of the first
\* of the three attempts (RFC 2822, ISO 8601, ISO 8601 after the whitespace
\* before a trailing +HHMM offset is normalised) that succeeds, and no
\* timestamp if none does; "Mon, 02 Jan 2023 08:00:00 +0000" gives 08:00 UTC,
\* "2023-01-02T08:00:00+08:00" and "2023-01-02 08:00:00  +0800" give 00:00
\* UTC, and "yesterday" gives no timestamp.
C21_ParseDateFlexible ==
    (probe # << >> /\ probe.done) =>
        LET d == probe.date_str
            out == probe.out
        IN  /\ ~out.raised
            /\ out.dt = (IF Strip(d) = << >> THEN << >> ELSE FirstSuccess(Strip(d)))
            /\ d = Example1 => out.dt # << >> /\ UtcHour(out.dt[1]) = 8
            /\ d = Example2 => out.dt # << >> /\ UtcHour(out.dt[1]) = 0
            /\ d = Example3 => out.dt # << >> /\ UtcHour(out.dt[1]) = 0
            /\ d = Example4 => out.dt = << >>

C21_Witness ==
    /\ probe # << >>
    /\ probe.done
    /\ probe.date_str = Example3
    /\ probe.out.dt = <<Aware(8, 8)>>

----------------------------------------------------------------------------
\* C22: a swap or revert applied for source S (swap_url_in_config returned
\* True) changes only S's own URL in the config document: the URL of every
\* other source in the document is the same before and after the step, also
\* when another entry holds a textually equal URL.
C22_MutationChangesOnlyOwnUrl ==
    [][\A r \in NewReqs :
          r.ret = "True" =>
              \A n \in Names \ {r.name} :
                  _get_current_url(load_config(configFile'), n) = LiveUrl(n)
      ]_vars

\* C23: the state document is written at most once per cycle, by the step
\* that ends the cycle, after the result of every source has been processed;
\* every other step leaves it as it is, so a cycle that aborts (an I/O error of
\* a config mutation, an exception of the revert probe) leaves the state
\* document exactly as it was before the cycle, whatever config mutations
\* were applied earlier in that cycle.
C23_StateWrittenOnceAfterLoop ==
    [][/\ (stateFile' # stateFile \/ stateDisk' # stateDisk) =>
              /\ pc = "updating"
              /\ idx > Len(results)
              /\ pc' = "done"
              /\ stateFile' = state
       /\ pc' = "aborted" => (stateFile' = stateFile /\ stateDisk' = stateDisk)
      ]_vars

C23_Witness ==
    /\ pc = "aborted"
    /\ \E i \in DOMAIN mutReqs : mutReqs[i].ret = "True"
    /\ stateFile # state
    /\ \E n \in Names : LiveUrl(n) # origUrl[n] /\ PersistedSwappedFrom(n) = None

\* C24: in one cycle at most one config mutation is applied per source (never
\* a swap and a revert of the same source), and a step emits a swap event
\* (name, old_url, fallback_url) or a revert event (name, current_url,
\* original_url) for a source if and only if swap_url_in_config returned True
\* for that source in that step; the same step then sets swapped_from to
\* old_url, respectively clears it.
C24_OneMutationPerSourceEventIffApplied ==
    [][\A n \in Names :
          LET applied == { r \in NewReqs : r.name = n /\ r.ret = "True" }
          IN  /\ Cardinality(applied) <= 1
              /\ applied # {} =>
                    ~(\E i \in DOMAIN mutReqs : mutReqs[i].name = n /\ mutReqs[i].ret = "True")
              /\ \A r \in applied :
                    IF r.kind = "swap"
                    THEN /\ <<n, r.old, r.new>> \in NewSwaps
                         /\ r.new = FALLBACK_URLS[n]
                         /\ GetEntry(state', n).swapped_from = r.old
                    ELSE /\ <<n, r.old, r.new>> \in NewReverts
                         /\ r.new = GetEntry(state, n).swapped_from
                         /\ GetEntry(state', n).swapped_from = None
              /\ \A e \in NewSwaps :
                    e[1] = n => \E r \in applied : r.kind = "swap" /\ e = <<n, r.old, r.new>>
              /\ \A e \in NewReverts :
                    e[1] = n => \E r \in applied : r.kind = "revert" /\ e = <<n, r.old, r.new>>
      ]_vars

C24_Witness ==
    /\ pc = "updating"
    /\ \E i \in DOMAIN swapped, j \in DOMAIN reverted :
          /\ swapped[i][1] # reverted[j][1]
          /\ GetEntry(state, swapped[i][1]).swapped_from = swapped[i][2]
          /\ GetEntry(state, reverted[j][1]).swapped_from = None

----------------------------------------------------------------------------
\* run_checks, lines 291-328, as a function of the order of the results: the
\* loop over rs from the state st and the document doc, p[name] being the
\* outcome of the revert probe of a source; then save_state, unless an
\* exception ended the loop.  Gives the config document, the persisted state
\* and the sets of swap and revert events.
RECURSIVE UpdateLoop(_, _, _, _, _, _, _)
UpdateLoop(rs, st, cfg, doc, p, sw, rv) ==
    IF rs = << >>
    THEN [doc |-> doc, persisted |-> st, swapped |-> sw, reverted |-> rv]
    ELSE LET name == Head(rs).name
             out == LoopBody(name, Head(rs).res, st, cfg, doc, p[name], "ok")
             sw2 == sw \cup { out.swapped[i] : i \in DOMAIN out.swapped }
             rv2 == rv \cup { out.reverted[i] : i \in DOMAIN out.reverted }
         IN  IF EntryFault(stateDisk, stateNull, name)
             THEN [doc |-> doc, persisted |-> stateFile, swapped |-> sw, reverted |-> rv]
             ELSE IF out.raised
             THEN [doc |-> out.doc, persisted |-> stateFile, swapped |-> sw2, reverted |-> rv2]
             ELSE UpdateLoop(Tail(rs), DictSet(st, name, out.entry), cfg, out.doc, p, sw2, rv2)

\* the results in another completion order
Reordered(rs, f) == [i \in DOMAIN rs |-> rs[f[i]]]

\* C25: for a fixed config, previous state and fixed per-source probe
\* outcomes, the config document, the persisted state and the sets of swap
\* and revert events after the cycle are the same for every order in which
\* the parallel probes complete.
C25_CompletionOrderIrrelevant ==
    (pc = "updating" /\ idx = 1) =>
        \A p \in [Names -> {"ok", "unreachable", "raise"}] :
            \A f \in Permutations(DOMAIN results) :
                UpdateLoop(Reordered(results, f), state, config, configFile, p, {}, {})
                    = UpdateLoop(results, state, config, configFile, p, {}, {})

====
